---- MODULE Spec2Model ----
(***************************************************************************)
(* A model of ws2812.c: a WS2812 LED string driven from a render loop      *)
(* (main and the pattern routines walk_three, fade_three, chase_colour)    *)
(* and a mode button handled by the GPIO interrupt handler gpio_callback,  *)
(* which preempts the render loop between any two of its steps.            *)
(***************************************************************************)
EXTENDS Integers, Sequences, FiniteSets, TLC

(***************************************************************************)
(* Program constants.                                                      *)
(***************************************************************************)
MODE_MAX == 6
led_pattern_max == MODE_MAX
EDGE_PRESS == 4
EDGE_RELEASE == 8
U8 == 256
U16 == 65536

(***************************************************************************)
(* Bounds of the model.  NUM_PIXELS is 100 in the source; the routines     *)
(* treat every cell alike, so the model runs them on a shorter string.     *)
(***************************************************************************)
NUM_PIXELS == 6
MaxGestures == 7
MaxFadeFrames == 4
MaxLiveGestures == 4

EdgeEvents == {EDGE_PRESS, EDGE_RELEASE, EDGE_PRESS + EDGE_RELEASE}
Cells == 0 .. (NUM_PIXELS - 1)

VARIABLES
    led_pressed,       \* static volatile bool led_pressed
    button_interrupt,  \* static volatile bool button_interrupt
    led_pattern,       \* static volatile int led_pattern
    led_array,         \* the calloc'ed buffer, cells 0 .. NUM_PIXELS-1
    overrun,           \* indices past the end of led_array that were stored to
    strip,             \* the words last shifted out to the LED string
    pc,                \* position of the render loop
    frame,             \* arguments and locals of the running routine
    ret,               \* get_interrupted's local ret (its last return value)
    gestures,          \* observer: press-release pairs completed so far
    polled_gestures,   \* observer: gestures when get_interrupted last returned
    polled_mode,       \* observer: led_pattern when get_interrupted last returned
    pending,           \* observer: a pair completed after the last read of the flag
    stale_tx,          \* observer: transmits of the running routine since a pair
                       \*           completed during it (-1: none completed)
    frame_no           \* observer: index of the running routine's current frame,
                       \*           counted within FrameWindow

globals == <<led_pressed, button_interrupt, led_pattern>>
pixels == <<led_array, overrun, strip>>
observers == <<gestures, polled_gestures, polled_mode, pending, stale_tx,
               frame_no>>
vars == <<led_pressed, button_interrupt, led_pattern, led_array, overrun, strip,
          pc, frame, ret, gestures, polled_gestures, polled_mode, pending,
          stale_tx, frame_no>>

(***************************************************************************)
(* Pure helpers.                                                           *)
(***************************************************************************)
\* events & bit, for a single-bit mask
HasBit(events, bit) == (events \div bit) % 2 = 1

\* rgb_u32: (g << 8) | (r << 16) | b on 8-bit channels
rgb_u32(r, g, b) == (g % U8) * 256 + (r % U8) * 65536 + (b % U8)

\* x << 8u on a uint32_t, as the four bytes of the result, most significant
\* first (the PIO shifts the word out from its most significant bit)
Shl8(x) == <<(x \div 65536) % U8, (x \div 256) % U8, x % U8, 0>>

\* led_array_write: every cell is put to the PIO shifted left by 8
ShiftOut(array) == [i \in Cells |-> Shl8(array[i])]

\* led_array_set: every cell of the array becomes colour
led_array_set(colour) == [i \in Cells |-> colour]

(***************************************************************************)
(* gpio_callback as a function of the three globals.                       *)
(***************************************************************************)
\* mutants: the wrap test is missing / compares with >
IncPattern_NoWrap(p) == p + 1

IncPattern_OffByOne(p) ==
    IF p + 1 > led_pattern_max THEN 0 ELSE p + 1

\* led_pattern++; if (led_pattern == led_pattern_max) led_pattern = 0;
IncPattern(p) ==
    IF p + 1 = led_pattern_max THEN 0 ELSE p + 1

\* mutant: the release branch does not set button_interrupt
gpio_callback_fn_NoFlag(s, events) ==
    IF HasBit(events, EDGE_PRESS)
    THEN IF s.led_pressed = FALSE
         THEN [s EXCEPT !.led_pressed = TRUE]
         ELSE s
    ELSE IF HasBit(events, EDGE_RELEASE)
         THEN IF s.led_pressed = TRUE
              THEN [led_pressed |-> FALSE,
                    button_interrupt |-> s.button_interrupt,
                    led_pattern |-> IncPattern(s.led_pattern)]
              ELSE s
         ELSE s

\* mutant: the release branch does not test led_pressed
gpio_callback_fn_Unpaired(s, events) ==
    IF HasBit(events, EDGE_PRESS)
    THEN IF s.led_pressed = FALSE
         THEN [s EXCEPT !.led_pressed = TRUE]
         ELSE s
    ELSE IF HasBit(events, EDGE_RELEASE)
         THEN [led_pressed |-> FALSE,
               button_interrupt |-> TRUE,
               led_pattern |-> IncPattern(s.led_pattern)]
         ELSE s

\* mutant: the release branch toggles button_interrupt
gpio_callback_fn_Toggle(s, events) ==
    IF HasBit(events, EDGE_PRESS)
    THEN IF s.led_pressed = FALSE
         THEN [s EXCEPT !.led_pressed = TRUE]
         ELSE s
    ELSE IF HasBit(events, EDGE_RELEASE)
         THEN IF s.led_pressed = TRUE
              THEN [led_pressed |-> FALSE,
                    button_interrupt |-> ~s.button_interrupt,
                    led_pattern |-> IncPattern(s.led_pattern)]
              ELSE s
         ELSE s

\* mutant: button_interrupt is set by the press, led_pattern by the release
gpio_callback_fn_FlagOnPress(s, events) ==
    IF HasBit(events, EDGE_PRESS)
    THEN IF s.led_pressed = FALSE
         THEN [s EXCEPT !.led_pressed = TRUE, !.button_interrupt = TRUE]
         ELSE s
    ELSE IF HasBit(events, EDGE_RELEASE)
         THEN IF s.led_pressed = TRUE
              THEN [s EXCEPT !.led_pressed = FALSE,
                             !.led_pattern = IncPattern(s.led_pattern)]
              ELSE s
         ELSE s

\* mutant: the release test is an if of its own, not the else of the press test
gpio_callback_fn_BothBranches(s, events) ==
    LET p == IF HasBit(events, EDGE_PRESS) /\ s.led_pressed = FALSE
             THEN [s EXCEPT !.led_pressed = TRUE]
             ELSE s
    IN  IF HasBit(events, EDGE_RELEASE) /\ p.led_pressed = TRUE
        THEN [led_pressed |-> FALSE,
              button_interrupt |-> TRUE,
              led_pattern |-> IncPattern(p.led_pattern)]
        ELSE p

gpio_callback_fn(s, events) ==
    IF HasBit(events, EDGE_PRESS)
    THEN IF s.led_pressed = FALSE
         THEN [s EXCEPT !.led_pressed = TRUE]
         ELSE s
    ELSE IF HasBit(events, EDGE_RELEASE)
         THEN IF s.led_pressed = TRUE
              THEN [led_pressed |-> FALSE,
                    button_interrupt |-> TRUE,
                    led_pattern |-> IncPattern(s.led_pattern)]
              ELSE s
         ELSE s

Globals ==
    [led_pressed |-> led_pressed,
     button_interrupt |-> button_interrupt,
     led_pattern |-> led_pattern]

\* a press-release pair completes in this invocation
Completes(events) ==
    /\ ~HasBit(events, EDGE_PRESS)
    /\ HasBit(events, EDGE_RELEASE)
    /\ led_pressed = TRUE

\* The interrupt handler runs to completion between two steps of the render
\* loop (one core, the handler has the higher priority).
gpio_callback(events) ==
    LET s == gpio_callback_fn(Globals, events) IN
    /\ led_pressed' = s.led_pressed
    /\ button_interrupt' = s.button_interrupt
    /\ led_pattern' = s.led_pattern
    /\ gestures' = IF Completes(events) THEN gestures + 1 ELSE gestures
    /\ pending' = IF Completes(events) THEN TRUE ELSE pending
    /\ stale_tx' = IF Completes(events) /\ frame.fn # "main" /\ stale_tx < 0
                   THEN 0 ELSE stale_tx
    /\ UNCHANGED <<pixels, pc, frame, ret, polled_gestures, polled_mode,
                   frame_no>>

(***************************************************************************)
(* get_interrupted: the read of the flag (line 95) and, when it was set,   *)
(* the store that clears it (line 97) are two steps of the render loop.    *)
(***************************************************************************)
get_interrupted_read ==
    /\ pc = "poll"
    /\ ret' = button_interrupt
    /\ pending' = FALSE
    /\ IF button_interrupt
       THEN /\ pc' = "gi_clear"
            /\ UNCHANGED <<polled_gestures, polled_mode>>
       ELSE /\ pc' = "render"
            /\ polled_gestures' = gestures
            /\ polled_mode' = led_pattern
    /\ UNCHANGED <<globals, pixels, frame, gestures, stale_tx, frame_no>>

\* mutant: the flag is returned but not cleared
get_interrupted_clear_Keeps ==
    /\ pc = "gi_clear"
    /\ pc' = "main_switch"
    /\ frame' = [fn |-> "main"]
    /\ polled_gestures' = gestures
    /\ polled_mode' = led_pattern
    /\ UNCHANGED <<globals, pixels, ret, gestures, pending, stale_tx,
                   frame_no>>

\* ret was true: clear the flag, return true; the caller breaks and returns
get_interrupted_clear ==
    /\ pc = "gi_clear"
    /\ button_interrupt' = FALSE
    /\ pc' = "main_switch"
    /\ frame' = [fn |-> "main"]
    /\ polled_gestures' = gestures
    /\ polled_mode' = led_pattern
    /\ UNCHANGED <<led_pressed, led_pattern, pixels, ret, gestures, pending,
                   stale_tx, frame_no>>

(***************************************************************************)
(* led_array_write and clear_leds.                                         *)
(***************************************************************************)
Transmitted(n) == IF n < 0 THEN n ELSE IF n >= 2 THEN 2 ELSE n + 1

\* The frame index is kept within a window that holds the stretch of frames
\* the properties speak of: two rotations of walk_three, one reflect cycle of
\* fade_three (down 255 and up 255), three round trips of chase_colour.
FrameWindow(f) ==
    CASE f.fn = "walk_three" -> 2 * 3
      [] f.fn = "fade_three" -> 2 * 255
      [] f.fn = "chase_colour" -> 3 * (2 * NUM_PIXELS)
      [] OTHER -> 1

\* clear_leds: led_array_set(array, array_size, 0) then led_array_write
clear_leds ==
    /\ pc \in {"main_clear", "chase_clear"}
    /\ led_array' = led_array_set(0)
    /\ strip' = ShiftOut(led_array')
    /\ pc' = IF pc = "main_clear" THEN "main_sleep" ELSE "poll"
    /\ stale_tx' = Transmitted(stale_tx)
    /\ UNCHANGED <<globals, overrun, frame, ret, gestures, polled_gestures,
                   polled_mode, pending, frame_no>>

\* the routines' led_array_write(pio, sm, array, array_size)
led_array_write ==
    /\ pc = "write"
    /\ strip' = ShiftOut(led_array)
    /\ pc' = IF frame.fn = "walk_three" THEN "sleep" ELSE "adjust"
    /\ stale_tx' = Transmitted(stale_tx)
    /\ frame_no' = (frame_no + 1) % FrameWindow(frame)
    /\ UNCHANGED <<globals, led_array, overrun, frame, ret, gestures,
                   polled_gestures, polled_mode, pending>>

\* sleep_ms returns after the interval; the loop goes back to its top
sleep_ms ==
    /\ pc \in {"sleep", "main_sleep"}
    /\ pc' = IF pc = "main_sleep" THEN "main_switch" ELSE "poll"
    /\ UNCHANGED <<globals, pixels, frame, ret, observers>>

(***************************************************************************)
(* walk_three                                                              *)
(***************************************************************************)
walk_three_frame(period) ==
    [fn |-> "walk_three", period |-> period, step |-> 0]

WalkClrs(step) ==
    LET red == rgb_u32(255 \div 8, 0, 0)
        grn == rgb_u32(0, 255 \div 8, 0)
        blu == rgb_u32(0, 0, 255 \div 8)
    IN  IF step = 0 THEN [k \in 0..2 |-> IF k = 0 THEN red ELSE IF k = 1 THEN grn ELSE blu]
        ELSE IF step = 1 THEN [k \in 0..2 |-> IF k = 2 THEN red ELSE IF k = 0 THEN grn ELSE blu]
        ELSE [k \in 0..2 |-> IF k = 1 THEN red ELSE IF k = 2 THEN grn ELSE blu]

\* mutant: the third arrangement is never selected
WalkNextStep_TwoPhase(step) == IF step = 0 THEN 1 ELSE 0

WalkNextStep(step) == IF step = 0 THEN 1 ELSE IF step = 1 THEN 2 ELSE 0

\* mutant: the loop ends by itself after its third frame
walk_three_render_Exits ==
    /\ pc = "render"
    /\ frame.fn = "walk_three"
    /\ LET clrs == WalkClrs(frame.step) IN
       led_array' = [i \in Cells |-> clrs[i % 3]]
    /\ IF frame.step = 2
       THEN frame' = [fn |-> "main"] /\ pc' = "main_switch"
       ELSE frame' = [frame EXCEPT !.step = WalkNextStep(frame.step)] /\ pc' = "write"
    /\ UNCHANGED <<globals, overrun, strip, ret, observers>>

\* lines 284-307: pick the colours for this step, fill the array
walk_three_render ==
    /\ pc = "render"
    /\ frame.fn = "walk_three"
    /\ LET clrs == WalkClrs(frame.step) IN
       led_array' = [i \in Cells |-> clrs[i % 3]]
    /\ frame' = [frame EXCEPT !.step = WalkNextStep(frame.step)]
    /\ pc' = "write"
    /\ UNCHANGED <<globals, overrun, strip, ret, observers>>

(***************************************************************************)
(* fade_three                                                              *)
(***************************************************************************)
\* uint16_t wait_ms = (((period*10)/256)+5)/10
FadeWaitMs(period) == ((((period * 10) \div 256) + 5) \div 10) % U16

\* uint16_t step_count = period / wait_ms
FadeStepCount(period) == (period \div FadeWaitMs(period)) % U16

\* the initial direction of a channel
FadeDir(v, adj) == IF v > 127 THEN -adj ELSE adj

fade_three_frame(red, grn, blu, period, adj) ==
    [fn |-> "fade_three", period |-> period, adj |-> adj,
     red |-> red, grn |-> grn, blu |-> blu,
     d_red |-> FadeDir(red, adj),
     d_grn |-> FadeDir(grn, adj),
     d_blu |-> FadeDir(blu, adj),
     step_no |-> 0]

\* the cell the drawing loop stores at offset k of its idx'th triple
FadeCell(f, k) ==
    IF k = 0 THEN rgb_u32(f.red \div 8, 0, 0)
    ELSE IF k = 1 THEN rgb_u32(0, f.grn \div 8, 0)
    ELSE rgb_u32(0, 0, f.blu \div 8)

\* the indices the drawing loop stores to: ap[0..2], ap += 3, array_size times
FadeStores == {3 * idx + k : idx \in Cells, k \in 0..2}

\* The stores past the end of the calloc'ed block land in the heap behind it
\* (nothing else is allocated after the buffer and the heap is not used
\* again); the model records which indices were hit.
fade_three_render ==
    /\ pc = "render"
    /\ frame.fn = "fade_three"
    /\ led_array' = [i \in Cells |->
                        IF i \in FadeStores THEN FadeCell(frame, i % 3)
                        ELSE led_array[i]]
    /\ overrun' = overrun \cup (FadeStores \ Cells)
    /\ pc' = "write"
    /\ UNCHANGED <<globals, strip, frame, ret, observers>>

\* uint8_t channel += int direction
FadeStep(v, d) == (v + d) % U8

\* mutant: the upper turn is taken one value early, at 254
FadeTurn_Early(v, d) == IF v = 254 THEN -1 ELSE IF v = 0 THEN 1 ELSE d

\* d = (v == 255) ? -1 : (v == 0) ? 1 : d
FadeTurn(v, d) == IF v = 255 THEN -1 ELSE IF v = 0 THEN 1 ELSE d

FadeAdjust(f) ==
    LET r == FadeStep(f.red, f.d_red)
        g == FadeStep(f.grn, f.d_grn)
        b == FadeStep(f.blu, f.d_blu)
        n == (f.step_no + 1) % U16
    IN  [f EXCEPT !.red = r, !.grn = g, !.blu = b,
                  !.d_red = FadeTurn(r, f.d_red),
                  !.d_grn = FadeTurn(g, f.d_grn),
                  !.d_blu = FadeTurn(b, f.d_blu),
                  !.step_no = IF n >= FadeStepCount(f.period) THEN 0 ELSE n]

\* lines 184-203: adjust the channels, count the step, sleep unless it wrapped
fade_three_adjust ==
    /\ pc = "adjust"
    /\ frame.fn = "fade_three"
    /\ frame' = FadeAdjust(frame)
    /\ pc' = IF (frame.step_no + 1) % U16 >= FadeStepCount(frame.period)
             THEN "poll" ELSE "sleep"
    /\ UNCHANGED <<globals, pixels, ret, observers>>

(***************************************************************************)
(* chase_colour                                                            *)
(***************************************************************************)
chase_colour_frame(period, bg_on) ==
    [fn |-> "chase_colour", period |-> period, bg_on |-> bg_on,
     clr_pos |-> 0, clr_id |-> "r", clr_dir |-> 1]

ChaseFg(id) ==
    IF id = "r" THEN 983040 ELSE IF id = "g" THEN 3840 ELSE 15

ChaseBg(id, bg_on) ==
    IF ~bg_on THEN 0
    ELSE IF id = "r" THEN 513 ELSE IF id = "g" THEN 65538 ELSE 131328

chase_colour_render ==
    /\ pc = "render"
    /\ frame.fn = "chase_colour"
    /\ led_array' = [idx \in Cells |->
                        IF idx = frame.clr_pos THEN ChaseFg(frame.clr_id)
                        ELSE ChaseBg(frame.clr_id, frame.bg_on)]
    /\ pc' = "write"
    /\ UNCHANGED <<globals, overrun, strip, frame, ret, observers>>

\* mutant: the colours are taken in the order r, b, g
ChaseNextId_Reversed(id) ==
    IF id = "g" THEN "r" ELSE IF id = "b" THEN "g" ELSE "b"

ChaseNextId(id) ==
    IF id = "g" THEN "b" ELSE IF id = "b" THEN "r" ELSE "g"

\* mutant: the turn at the far end does not step back (no clr_pos--)
ChaseAdvance_NoStepBack(f, array_size) ==
    IF f.clr_dir = 1
    THEN IF f.clr_pos + 1 = array_size
         THEN [f EXCEPT !.clr_dir = -1, !.clr_pos = f.clr_pos + 1]
         ELSE [f EXCEPT !.clr_pos = f.clr_pos + 1]
    ELSE IF f.clr_dir = -1
         THEN IF f.clr_pos - 1 < 0
              THEN [f EXCEPT !.clr_pos = 0, !.clr_dir = 1,
                             !.clr_id = ChaseNextId(f.clr_id)]
              ELSE [f EXCEPT !.clr_pos = f.clr_pos - 1]
         ELSE f

\* lines 368-394
ChaseAdvance(f, array_size) ==
    IF f.clr_dir = 1
    THEN IF f.clr_pos + 1 = array_size
         THEN [f EXCEPT !.clr_dir = -1]
         ELSE [f EXCEPT !.clr_pos = f.clr_pos + 1]
    ELSE IF f.clr_dir = -1
         THEN IF f.clr_pos - 1 < 0
              THEN [f EXCEPT !.clr_pos = 0, !.clr_dir = 1,
                             !.clr_id = ChaseNextId(f.clr_id)]
              ELSE [f EXCEPT !.clr_pos = f.clr_pos - 1]
         ELSE f

chase_colour_adjust ==
    /\ pc = "adjust"
    /\ frame.fn = "chase_colour"
    /\ frame' = ChaseAdvance(frame, NUM_PIXELS)
    /\ pc' = "sleep"
    /\ UNCHANGED <<globals, pixels, ret, observers>>

(***************************************************************************)
(* main                                                                    *)
(***************************************************************************)
\* mutant: case 2 calls walk_three with the period of case 0
main_dispatch_SamePeriod(mode) ==
    CASE mode = 0 -> walk_three_frame(100)
      [] mode = 1 -> fade_three_frame(255, 0, 127, 3000, 1)
      [] mode = 2 -> walk_three_frame(100)
      [] mode = 3 -> fade_three_frame(255, 0, 127, 3000, 2)
      [] mode = 4 -> chase_colour_frame(100, FALSE)
      [] mode = 5 -> chase_colour_frame(100, TRUE)
      [] OTHER -> [fn |-> "main"]

\* the switch on led_pattern: the call each case makes
main_dispatch(mode) ==
    CASE mode = 0 -> walk_three_frame(100)
      [] mode = 1 -> fade_three_frame(255, 0, 127, 3000, 1)
      [] mode = 2 -> walk_three_frame(200)
      [] mode = 3 -> fade_three_frame(255, 0, 127, 3000, 2)
      [] mode = 4 -> chase_colour_frame(100, FALSE)
      [] mode = 5 -> chase_colour_frame(100, TRUE)
      [] OTHER -> [fn |-> "main"]

main_switch ==
    /\ pc = "main_switch"
    /\ frame' = main_dispatch(led_pattern)
    /\ pc' = IF frame'.fn = "main" THEN "main_switch"
             ELSE IF frame'.fn = "chase_colour" THEN "chase_clear"
             ELSE "poll"
    /\ stale_tx' = -1
    /\ frame_no' = 0
    /\ UNCHANGED <<globals, pixels, ret, gestures, polled_gestures,
                   polled_mode, pending>>

Init ==
    /\ led_pressed = FALSE
    /\ button_interrupt = FALSE
    /\ led_pattern = 0
    /\ led_array = [i \in Cells |-> 0]
    /\ overrun = {}
    /\ strip = [i \in Cells |-> <<0, 0, 0, 0>>]
    /\ pc = "main_clear"
    /\ frame = [fn |-> "main"]
    /\ ret = FALSE
    /\ gestures = 0
    /\ polled_gestures = 0
    /\ polled_mode = 0
    /\ pending = FALSE
    /\ stale_tx = -1
    /\ frame_no = 0

\* the button delivers edges until MaxGestures pairs have completed
Button ==
    /\ gestures < MaxGestures
    /\ \E events \in EdgeEvents : gpio_callback(events)

\* fade_three explored for its first MaxFadeFrames frames of an invocation
fade_three_render_bounded ==
    /\ frame.fn = "fade_three"
    /\ frame.step_no < MaxFadeFrames
    /\ fade_three_render

RenderLoop ==
    \/ clear_leds
    \/ sleep_ms
    \/ main_switch
    \/ get_interrupted_read
    \/ get_interrupted_clear
    \/ walk_three_render
    \/ fade_three_adjust
    \/ chase_colour_render
    \/ chase_colour_adjust
    \/ led_array_write

Next ==
    \/ Button
    \/ fade_three_render_bounded
    \/ RenderLoop

Spec == Init /\ [][Next]_vars

\* The render loop always runs on.  The button stops after MaxLiveGestures
\* pairs, and a press arrives only when no advance request is outstanding or
\* while the get_interrupted call that consumes it is between its read and
\* its clear.
ButtonLive ==
    /\ gestures < MaxLiveGestures
    /\ (button_interrupt = FALSE \/ pc = "gi_clear")
    /\ \E events \in EdgeEvents : gpio_callback(events)

NextLive ==
    \/ ButtonLive
    \/ fade_three_render
    \/ RenderLoop

SpecLive == Init /\ [][NextLive]_vars /\ WF_vars(fade_three_render \/ RenderLoop)

\* The button is used during the start-up second only (main's clear_leds and
\* sleep_ms(1000)); the routine it selected then runs undisturbed, for as
\* many frames as it takes.
ButtonQuiet ==
    /\ gestures < MaxGestures
    /\ pc \in {"main_clear", "main_sleep"}
    /\ \E events \in EdgeEvents : gpio_callback(events)

NextQuiet ==
    \/ ButtonQuiet
    \/ fade_three_render
    \/ RenderLoop

SpecQuiet == Init /\ [][NextQuiet]_vars
(***************************************************************************)
(* Shared vocabulary of the properties.                                    *)
(***************************************************************************)
\* a step of the render loop (every one of them moves pc)
Moves == pc' # pc

\* press-release pairs completed since get_interrupted last returned
PairsSincePoll == gestures - polled_gestures

\* frame f is the invocation main's switch makes for mode m
Configured(f, m) ==
    CASE m = 0 -> f.fn = "walk_three" /\ f.period = 100
      [] m = 1 -> f.fn = "fade_three" /\ f.adj = 1
      [] m = 2 -> f.fn = "walk_three" /\ f.period = 200
      [] m = 3 -> f.fn = "fade_three" /\ f.adj = 2
      [] m = 4 -> f.fn = "chase_colour" /\ f.bg_on = FALSE
      [] m = 5 -> f.fn = "chase_colour" /\ f.bg_on = TRUE
      [] OTHER -> FALSE

\* the globals after a press edge and then a release edge
PressRelease(s) ==
    gpio_callback_fn(gpio_callback_fn(s, EDGE_PRESS), EDGE_RELEASE)

RECURSIVE Pairs(_, _)
Pairs(s, n) == IF n = 0 THEN s ELSE Pairs(PressRelease(s), n - 1)

(***************************************************************************)
(* C1: from every reachable state with led_pressed false, a press edge     *)
(* followed by a release edge leaves button_interrupt true, led_pattern    *)
(* equal to (old value + 1) mod MODE_MAX and led_pressed false, however    *)
(* many get_interrupted calls came before.                                 *)
(***************************************************************************)
C1_PressThenRelease ==
    led_pressed = FALSE =>
        LET s == PressRelease(Globals) IN
        /\ s.button_interrupt = TRUE
        /\ s.led_pattern = (led_pattern + 1) % MODE_MAX
        /\ s.led_pressed = FALSE

\* a pair has just completed in a routine that polled several times before
C1_Witness ==
    /\ frame.fn = "walk_three" /\ pc = "sleep" /\ frame.step = 2
    /\ pending /\ PairsSincePoll = 1
    /\ led_pressed = FALSE /\ button_interrupt = TRUE
    /\ led_pattern = (polled_mode + 1) % MODE_MAX

(***************************************************************************)
(* C2: get_interrupted is atomic with respect to the handler: a pair that  *)
(* completed after the last read of the flag is never erased, so a         *)
(* get_interrupted call that starts after it finds the flag set.           *)
(***************************************************************************)
C2_NoLostRelease ==
    (pc = "poll" /\ pending) => button_interrupt = TRUE

C4_BoundedResponse ==
    /\ stale_tx <= 1
    /\ (frame.fn # "main" /\ stale_tx >= 0 /\ pc = "poll")
        => button_interrupt = TRUE

\* the frame in progress at the release was transmitted; the routine polls
C4_Witness ==
    frame.fn # "main" /\ stale_tx = 1 /\ pc = "poll"

C6_WritesInBounds ==
    overrun = {}

(***************************************************************************)
(* C7: led_pattern is always in 0..MODE_MAX-1 whatever edges arrived: it   *)
(* is the number of completed pairs mod MODE_MAX, and MODE_MAX more        *)
(* press-release pairs bring it back to its value.                         *)
(***************************************************************************)
C7_ModeInRange ==
    /\ led_pattern \in 0 .. (MODE_MAX - 1)
    /\ led_pattern = gestures % MODE_MAX
    /\ Pairs(Globals, MODE_MAX).led_pattern = led_pattern

\* a full wrap cycle has been made
C7_Witness ==
    gestures = MODE_MAX /\ led_pattern = 0

(***************************************************************************)
(* C8: a release edge delivered while led_pressed is false changes         *)
(* nothing: led_pressed, button_interrupt and led_pattern keep their       *)
(* values.                                                                 *)
(***************************************************************************)
C8_SpuriousRelease ==
    [][(led_pressed = FALSE /\ gpio_callback(EDGE_RELEASE))
        => UNCHANGED <<led_pressed, button_interrupt, led_pattern>>]_vars

\* not pressed, after a pair: a further release edge would be a spurious one
C8_Witness ==
    /\ led_pressed = FALSE /\ gestures >= 1 /\ button_interrupt
    /\ gpio_callback_fn(Globals, EDGE_RELEASE) = Globals

(***************************************************************************)
(* C9: a get_interrupted call that finds the flag set returns true and     *)
(* the next call, with no pair completed since, returns false; a call      *)
(* that finds the flag false returns false and changes no state.           *)
(***************************************************************************)
C9_TrueThenFalse ==
    [][ /\ (pc = "poll" /\ Moves /\ button_interrupt) => ret' = TRUE
        /\ (pc = "gi_clear" /\ Moves) => button_interrupt' = FALSE
        /\ (pc = "poll" /\ Moves /\ ret = TRUE /\ PairsSincePoll = 0)
            => ret' = FALSE
        /\ (pc = "poll" /\ Moves /\ ~button_interrupt)
            => (ret' = FALSE /\ UNCHANGED <<globals, pixels, frame>>)
      ]_vars

\* the first poll of a routine entered on a true return has returned false
C9_Witness ==
    /\ frame.fn = "fade_three" /\ frame.step_no = 0 /\ pc = "render"
    /\ gestures = 1 /\ PairsSincePoll = 0
    /\ ret = FALSE

(***************************************************************************)
(* C10: when k >= 1 pairs complete between two consecutive polls,          *)
(* led_pattern has advanced by k mod MODE_MAX, the next poll returns true  *)
(* once and the poll after it false, and the dispatch that follows is for  *)
(* the latest led_pattern.                                                 *)
(***************************************************************************)
C10_Coalescing ==
    /\ [](led_pattern = (polled_mode + PairsSincePoll) % MODE_MAX)
    /\ []((pc = "poll" /\ PairsSincePoll >= 1) => button_interrupt = TRUE)
    /\ [][ /\ (pc = "poll" /\ Moves /\ PairsSincePoll >= 1)
                => (ret' = TRUE /\ pc' = "gi_clear")
           /\ (pc = "gi_clear" /\ Moves)
                => (button_interrupt' = FALSE /\ pc' = "main_switch")
           /\ (pc = "poll" /\ Moves /\ ret = TRUE /\ PairsSincePoll = 0)
                => (ret' = FALSE /\ pc' = "render")
           /\ (pc = "main_switch" /\ Moves) => Configured(frame', led_pattern)
         ]_vars

\* MODE_MAX + 1 pairs completed between two polls of the running routine
C10_Witness ==
    /\ pc = "poll" /\ frame.fn # "main"
    /\ PairsSincePoll = MODE_MAX + 1
    /\ led_pattern = (polled_mode + 1) % MODE_MAX
    /\ button_interrupt

(***************************************************************************)
(* Vocabulary of the frame-by-frame properties.  A routine's frame_no-th   *)
(* frame is in led_array, and its locals hold that frame's values, when    *)
(* the routine stands before its led_array_write (pc = "write").           *)
(***************************************************************************)
Abs(x) == IF x < 0 THEN 0 - x ELSE x
AtFrame(fn) == frame.fn = fn /\ pc = "write"
FadeFrameToFrame == pc = "adjust" /\ frame.fn = "fade_three" /\ Moves

\* one channel over one frame: moved by exactly adj without wrapping, and
\* heads inward with a step of adj when it stands on 0 or 255
Reflects(v, d, v2, d2, adj) ==
    /\ Abs(v2 - v) = adj
    /\ Abs(d2) = adj
    /\ d2 = IF v2 = 255 THEN 0 - adj ELSE IF v2 = 0 THEN adj ELSE d

\* C11: in fade_three from (255, 0, 127) with adj 1 or 2, from every frame to
\* the next each channel moves by exactly adj, reverses at 0 and at 255,
\* never wraps modulo 256, and keeps the magnitude of its step after a
\* bounce.
C11_ReflectByStep ==
    [][FadeFrameToFrame =>
        /\ Reflects(frame.red, frame.d_red, frame'.red, frame'.d_red, frame.adj)
        /\ Reflects(frame.grn, frame.d_grn, frame'.grn, frame'.d_grn, frame.adj)
        /\ Reflects(frame.blu, frame.d_blu, frame'.blu, frame'.d_blu, frame.adj)]_vars

\* C12: in fade_three from (255, 0, 127) with adj 1, after 2 x 255 frames
\* every channel and its direction is back at its starting value, so the
\* frames repeat with that period (FrameWindow counts fade_three's frames
\* modulo 2 x 255, and step_no, which restarts every 250 frames, tells the
\* first frame from the 510th).
C12_FadePeriod ==
    (AtFrame("fade_three") /\ frame.adj = 1 /\ frame_no = 0)
        => /\ frame.red = 255 /\ frame.d_red = -1
           /\ frame.grn = 0 /\ frame.d_grn = 1
           /\ frame.blu = 127 /\ frame.d_blu = 1
C12_Witness ==
    /\ AtFrame("fade_three") /\ frame.adj = 1 /\ frame_no = 0
    /\ frame.step_no = (2 * 255) % FadeStepCount(frame.period)
    /\ frame.red = 255 /\ frame.grn = 0 /\ frame.blu = 127

\* the three reference colours of walk_three: red, green and blue at
\* brightness 255 >> 3 = 31, as the words the buffer holds
WalkRef == <<31 * 65536, 31 * 256, 31>>

\* C13: every frame of walk_three gives each residue class of the index
\* modulo 3 one of the three reference colours, a different one per class;
\* each frame is the one before rotated by one; so the frame k + 3 is the
\* frame k (frame_no runs over two rotations, 0 .. 5).
C13_WalkRotation ==
    AtFrame("walk_three") =>
        /\ \A i \in Cells : led_array[i] = WalkRef[((i + frame_no) % 3) + 1]
        /\ \A i, j \in Cells :
              (led_array[i] = led_array[j]) <=> (i % 3 = j % 3)
C13_Witness ==
    /\ AtFrame("walk_three") /\ frame_no = 4
    /\ led_array[0] = WalkRef[2] /\ led_array[1] = WalkRef[3]
    /\ led_array[2] = WalkRef[1]

\* C14: in chase_colour the foreground position is within 0 .. N-1 at every
\* poll, render, transmit and sleep point, with and without background.
C14_PositionInRange ==
    frame.fn = "chase_colour" => frame.clr_pos \in Cells
C14_Witness ==
    /\ frame.fn = "chase_colour" /\ frame.bg_on /\ pc = "poll"
    /\ frame.clr_id = "g"
    /\ frame.clr_pos = NUM_PIXELS - 1 /\ frame.clr_dir = -1

ChaseFrameToFrame == pc = "adjust" /\ frame.fn = "chase_colour" /\ Moves
ColourAfter(id) == IF id = "r" THEN "g" ELSE IF id = "g" THEN "b" ELSE "r"

\* C15: in chase_colour the colour changes exactly when the position, coming
\* down, bounces at 0, to the next of red, green, blue, red; the direction
\* turns downward only at N-1 and upward only at that bounce, and the
\* position moves one cell at a time in the current direction: so the
\* colour advances once per round trip 0 .. N-1 .. 0 and at no other frame.
C15_ColourPerRoundTrip ==
    [][(frame.fn = "chase_colour" /\ frame'.fn = "chase_colour") =>
        LET bounce == ChaseFrameToFrame /\ frame.clr_pos = 0 /\ frame.clr_dir = -1
        IN  /\ (frame'.clr_id # frame.clr_id) <=> bounce
            /\ bounce => /\ frame'.clr_id = ColourAfter(frame.clr_id)
                         /\ frame'.clr_pos = 0
                         /\ frame'.clr_dir = 1
            /\ (frame.clr_dir = 1 /\ frame'.clr_dir # 1)
                    => (frame.clr_pos = NUM_PIXELS - 1 /\ frame'.clr_dir = -1)
            /\ (frame.clr_dir = -1 /\ frame'.clr_dir # -1) => bounce
            /\ frame'.clr_pos # frame.clr_pos
                    => frame'.clr_pos = frame.clr_pos + frame.clr_dir]_vars
C15_Witness ==
    /\ frame.fn = "chase_colour" /\ pc = "sleep" /\ frame_no = 0
    /\ frame.clr_id = "r" /\ frame.clr_pos = 0 /\ frame.clr_dir = 1

Lit == {i \in Cells : led_array[i] # 0}

\* C16: in chase_colour without background the frames 0 .. N-1 light the
\* positions 0 .. N-1 in order with the direction still upward, and frame N
\* has the direction reversed and lights position N-2.
C16_FirstSweep ==
    (AtFrame("chase_colour") /\ ~frame.bg_on) =>
        /\ frame_no < NUM_PIXELS => (Lit = {frame_no} /\ frame.clr_dir = 1)
        /\ frame_no = NUM_PIXELS
               => (Lit = {NUM_PIXELS - 2} /\ frame.clr_dir = -1)

\* channel values the routines pass to rgb_u32, and the extremes
Channels == {0, 1, 15, 31, 127, 255}

\* C17: for every (r, g, b), the word rgb_u32 makes goes to the LED string
\* with green in its most significant byte, then red, then blue: a cell that
\* holds rgb_u32(r, g, b) and has been shifted out shows the bytes g, r, b.
C17_GreenRedBlue ==
    \A i \in Cells : \A r, g, b \in Channels :
        (led_array[i] = rgb_u32(r, g, b) /\ strip[i] = Shl8(led_array[i]))
            => strip[i] = <<g, r, b, 0>>

\* a routine is at one of its transmits: led_array_write, or the clear_leds
\* chase_colour starts with
Transmits == frame.fn # "main" /\ pc \in {"write", "chase_clear"}

\* C18: whenever a routine transmits, button_interrupt is true or the running
\* invocation is the one main dispatches for the current led_pattern, for
\* every interleaving of edges with the render loop.
C18_FlagOrCurrentMode ==
    Transmits => (button_interrupt = TRUE \/ Configured(frame, led_pattern))
C18_Witness ==
    /\ Transmits /\ pc = "write"
    /\ button_interrupt = TRUE
    /\ ~Configured(frame, led_pattern)

\* C19: in every routine an iteration whose poll returned false goes through
\* render, exactly one transmit and exactly one sleep, in that order, and the
\* next poll follows that sleep.
C19_TransmitThenSleep ==
    [][(frame.fn # "main" /\ Moves) =>
        /\ (pc = "poll" /\ ret' = FALSE) => pc' = "render"
        /\ pc = "render" => pc' = "write"
        /\ pc = "write" => (strip' = ShiftOut(led_array) /\ pc' \in {"adjust", "sleep"})
        /\ pc = "adjust" => pc' = "sleep"
        /\ pc = "sleep" => pc' = "poll"
        /\ (pc' = "poll" /\ pc # "chase_clear") => pc = "sleep"]_vars

BothEdges == EDGE_PRESS + EDGE_RELEASE

\* C20: a gpio_callback invocation whose events carry both edge bits takes
\* the press branch only: led_pressed is true after it, led_pattern and
\* button_interrupt are as before, and no press-release pair completes.
C20_BothEdgesPressOnly ==
    [][gpio_callback(BothEdges) =>
        /\ led_pressed' = TRUE
        /\ UNCHANGED <<led_pattern, button_interrupt, gestures>>]_vars
C20_Witness ==
    /\ led_pressed = TRUE /\ button_interrupt = FALSE /\ gestures >= 1
    /\ gpio_callback_fn(Globals, BothEdges) = Globals
    /\ gpio_callback_fn(Globals, EDGE_RELEASE) # Globals
====
